---- MODULE Spec2Model ----
(***************************************************************************)
(* Model of the Coursera MCP server: the streamable-HTTP session           *)
(* dispatcher (API-key middleware, session table, getStreamableTransport,  *)
(* the /mcp route, cleanupSession / shutdownSession, the SIGINT handler)   *)
(* and the per-session tool-registry instance built by                     *)
(* createCourseraServer (tool dispatch, lazy browser, close hook).         *)
(*                                                                         *)
(* One action is one run of a handler up to its next suspension on real    *)
(* I/O (an upstream response, a browser launch, a close that the caller    *)
(* awaits).  Every promise the code awaits from outside the repository     *)
(* can resolve, reject or stay pending; the model draws that outcome       *)
(* nondeterministically.                                                   *)
(***************************************************************************)
EXTENDS Integers, Sequences, FiniteSets, Bags, TLC

(* ------------------------------ bounds -------------------------------- *)
MaxSessions == 2
MaxOrphans == 1
MaxCalls == 2

(* ----------------------------- constants ------------------------------ *)
NoSid == 0
SessionIds == 1..MaxSessions
NoKey == <<>>
TheKey == <<"k1">>

VARIABLES apiKey, proc, sessions, issued, orphans, transports, servers, calls,
          sig, exit, unhandled, last

vars == <<apiKey, proc, sessions, issued, orphans, transports, servers, calls,
          sig, exit, unhandled, last>>

(* --------------------------- configuration ---------------------------- *)
\* An environment variable is not set, set to the empty string, or set to
\* a value.
Unset == "undefined"
EnvValues == {Unset, "", "value"}

\* The process: the entry point it was started from (the HTTP server or the
\* stdio server), its COURSERA_COOKIES and COURSERA_CAUTH once loadEnv has
\* run, and whether startup is over.
Process(binding, cookies, cauth, started) ==
    [binding |-> binding, cookies |-> cookies, cauth |-> cauth, started |-> started]

\* !value
Falsy(value) == value \in {Unset, ""}

\* Mutation of MissingCredentials: one missing variable is enough to fail.
MissingCredentialsEither(p) == Falsy(p.cookies) \/ Falsy(p.cauth)

\* getCourseraConfig: if (!cookies && !cauth) throw
MissingCredentials(p) == Falsy(p.cookies) /\ Falsy(p.cauth)

(* --------------------------- request inputs --------------------------- *)
\* A header value is a sequence of whitespace-separated words (so trimming
\* and the \s+ of the Bearer pattern are built into the representation);
\* an absent header is told apart from an empty one.
NoHeader == [set |-> FALSE, v |-> <<>>]
Header(words) == [set |-> TRUE, v |-> words]

Credentials ==
    { [authorization |-> NoHeader,                    xApiKey |-> NoHeader],
      [authorization |-> Header(<<"Bearer", "k1">>),  xApiKey |-> NoHeader],
      [authorization |-> Header(<<"bearer", "bad">>), xApiKey |-> Header(<<"k1">>)],
      [authorization |-> Header(<<"k1">>),            xApiKey |-> NoHeader],
      [authorization |-> Header(<<"Basic", "k1">>),   xApiKey |-> NoHeader],
      [authorization |-> Header(<<>>),                xApiKey |-> Header(<<"k1">>)],
      [authorization |-> NoHeader,                    xApiKey |-> Header(<<"k1">>)],
      [authorization |-> NoHeader,                    xApiKey |-> Header(<<"bad">>)] }

GoodCredentials == [authorization |-> Header(<<"Bearer", "k1">>), xApiKey |-> NoHeader]

\* Argument objects of a tools/call: the property names present and the
\* value of "limit" when it is one of them.
Args(keys, limit) == [keys |-> keys, limit |-> limit]
NoArgs == Args({}, 0)

\* The tools/call messages sent: tool name and argument object.
ToolCalls ==
    { <<"list_enrollments", NoArgs>>,
      <<"list_enrollments", Args({"limit"}, 50)>>,
      <<"list_enrollments", Args({"limit"}, 0)>>,
      <<"list_enrollments", Args({"limit"}, 101)>>,
      <<"list_enrollments", Args({"bogus"}, 0)>>,
      <<"get_course", NoArgs>>,
      <<"get_course", Args({"course_slug"}, 0)>>,
      <<"get_course", Args({"course_slug", "bogus"}, 0)>>,
      <<"get_lecture", Args({"course_slug"}, 0)>>,
      <<"get_lecture", Args({"course_slug", "item_id"}, 0)>>,
      <<"get_page_content", NoArgs>>,
      <<"list_degree_programs", NoArgs>>,
      <<"does_not_exist", NoArgs>>,
      <<"constructor", NoArgs>>,
      <<"__proto__", NoArgs>> }

\* Message shapes: method, body, whether the transport accepts the message
\* as well formed, and for a tools/call the tool and its arguments.  Bodies:
\* a single initialize request, a batch holding an initialize request and
\* another message, a tools/call, a tools/list, no body.
Shape(method, body, wellFormed, tool, args) ==
    [method |-> method, body |-> body, wellFormed |-> wellFormed,
     tool |-> tool, args |-> args]

Shapes ==
    { Shape("POST", "initialize", wf, "", NoArgs) : wf \in BOOLEAN }
    \cup { Shape("POST", "batch_initialize", TRUE, "", NoArgs),
           Shape("POST", "tools/list", TRUE, "", NoArgs),
           Shape("POST", "tools/list", FALSE, "", NoArgs),
           Shape("POST", "nobody", TRUE, "", NoArgs),
           Shape("GET", "nobody", TRUE, "", NoArgs),
           Shape("DELETE", "nobody", TRUE, "", NoArgs) }
    \cup { Shape("POST", "tools/call", TRUE, tc[1], tc[2]) : tc \in ToolCalls }

Request(cr, sid, sh) ==
    [ authorization |-> cr.authorization, xApiKey |-> cr.xApiKey, sid |-> sid,
      method |-> sh.method, body |-> sh.body, wellFormed |-> sh.wellFormed,
      tool |-> sh.tool, args |-> sh.args ]

\* The requests sent to /mcp: every message shape under every session header
\* with accepted credentials, and every form of credentials on an
\* initialize request and on a request naming each session identifier.
Requests ==
    { Request(GoodCredentials, sid, sh) : sid \in 0..MaxSessions, sh \in Shapes }
    \cup { Request(cr, sid, Shape("POST", "initialize", TRUE, "", NoArgs)) :
             cr \in Credentials, sid \in 0..MaxSessions }

\* What the last handled request was answered with: the branch taken, the
\* HTTP status, the JSON-RPC error (if any), the instance it was routed to,
\* and for a tools/call whether its arguments satisfied the declared schema
\* and whether the dispatch issued an upstream request or a browser launch.
Answer(path, status, error, schemaOk, upstream) ==
    [ path |-> path, status |-> status, error |-> error,
      schemaOk |-> schemaOk, upstream |-> upstream ]

\* What a tools/call that ended at an upstream HTTP response was answered
\* with: a JSON-RPC error when the handler threw, else formatToolResponse of
\* what it returned; text is the message the answer carries, with the
\* upstream status and the length of the upstream body quoted in it.
ToolAnswer(o) ==
    [ path |-> "result", status |-> 200,
      error |-> IF o.threw THEN o.message ELSE "none",
      schemaOk |-> TRUE, upstream |-> TRUE,
      text |-> o.message, upstreamStatus |-> o.status, bodyLen |-> o.len ]

NoLast == Answer("start", 0, "none", TRUE, FALSE)

(* ---------------------------- session table --------------------------- *)
\* const sessions = new Map(): insertion-ordered entries keyed by session id.
SessionKeys == { sessions[k].id : k \in DOMAIN sessions }

HasSession(table, sid) == \E k \in DOMAIN table : table[k].id = sid

GetSession(table, sid) ==
    table[CHOOSE k \in DOMAIN table : table[k].id = sid]

DeleteSession(table, sid) ==
    SelectSeq(table, LAMBDA e : e.id # sid)

\* Map.set: replace the value of an existing key in place, else append.
storeSession(table, sid, transport, server) ==
    IF HasSession(table, sid)
    THEN [k \in DOMAIN table |->
            IF table[k].id = sid
            THEN [id |-> sid, transport |-> transport, server |-> server]
            ELSE table[k]]
    ELSE Append(table, [id |-> sid, transport |-> transport, server |-> server])

KeysInOrder(table) == [k \in DOMAIN table |-> table[k].id]

(* ---------------------------- tool registry --------------------------- *)
\* const tools = [...]: the declared input schema of every tool.
Schema(properties, required) == [properties |-> properties, required |-> required]

ItemProps == {"course_slug", "item_id", "item_name"}

tools ==
    [ list_enrollments      |-> Schema({"limit"}, {}),
      get_course            |-> Schema({"course_slug"}, {"course_slug"}),
      list_course_materials |-> Schema({"course_slug"}, {"course_slug"}),
      get_page_content      |-> Schema({"url"}, {"url"}),
      get_reading           |-> Schema(ItemProps, {"course_slug", "item_id"}),
      get_lecture           |-> Schema(ItemProps, {"course_slug", "item_id"}),
      list_assignments      |-> Schema({"course_slug"}, {"course_slug"}),
      get_assignment        |-> Schema(ItemProps, {"course_slug", "item_id"}),
      get_progress          |-> Schema({"course_slug"}, {"course_slug"}),
      list_degree_programs  |-> Schema({}, {}) ]

LimitMinimum == 1
LimitMaximum == 100

\* The declared contract: required properties present, no undeclared property
\* (additionalProperties: false), "limit" within its numeric bounds.
SatisfiesSchema(name, args) ==
    /\ tools[name].required \subseteq args.keys
    /\ args.keys \subseteq tools[name].properties
    /\ "limit" \in args.keys => (LimitMinimum <= args.limit /\ args.limit <= LimitMaximum)

\* const toolHandlers = {...}: the names a tools/call can be dispatched to.
toolHandlers ==
    { "list_enrollments", "get_course", "list_course_materials", "get_page_content",
      "get_reading", "get_lecture", "list_assignments", "get_assignment",
      "get_progress", "list_degree_programs" }

\* toolHandlers is an object literal: besides its own properties, a lookup by
\* name finds what it inherits from Object.prototype, such as constructor
\* (the function Object, which returns its argument) and __proto__ (the
\* prototype object, which is not a function).
InheritedProperties == {"constructor", "__proto__"}

\* const handler = toolHandlers[name]
LookupHandler(name) ==
    IF name \in toolHandlers \cup InheritedProperties THEN name ELSE "undefined"

\* What a handler does before its first suspension: issue an upstream HTTP
\* request (courseraFetch), ask for the browser (createAuthenticatedPage), or
\* throw (getPageContent reading .includes of a missing url, or a handler
\* that is not a function), or return at once (Object(args)).
FirstStep(name, args) ==
    CASE name = "constructor" -> "return"
      [] name = "__proto__" -> "throw"
      [] name \in {"list_enrollments", "get_course", "list_assignments",
                   "list_degree_programs"} -> "fetch"
      [] name = "get_page_content" ->
            IF "url" \in args.keys THEN "browser" ELSE "throw"
      [] OTHER -> "browser"

\* An upstream HTTP response: its status (0 when fetch itself rejects, with
\* no response) and the length of its body.
Response(status, len) == [status |-> status, len |-> len]

Responses ==
    { Response(0, 0) }
    \cup { Response(status, len) : status \in {200, 404, 500}, len \in {0, 500, 501} }

\* The responses the specifications that do not look at answers draw from.
PlainResponses == { Response(200, 0), Response(500, 0) }

\* response.ok
ResponseOk(resp) == 200 <= resp.status /\ resp.status <= 299

Outcome(threw, message, status, len) ==
    [threw |-> threw, message |-> message, status |-> status, len |-> len]

\* courseraFetch: throws "Coursera API error <status>: <text.slice(0, 500)>"
\* on a response that is not ok, and lets a rejection of fetch through.
courseraFetch(resp) ==
    IF resp.status = 0 THEN Outcome(TRUE, "fetch failed", 0, 0)
    ELSE IF ~ResponseOk(resp)
    THEN Outcome(TRUE, "Coursera API error", resp.status,
                 IF resp.len < 500 THEN resp.len ELSE 500)
    ELSE Outcome(FALSE, "none", resp.status, 0)

\* What the handler makes of the outcome of its last request: listEnrollments
\* replaces every failed request by null (.catch(() => null)) and returns
\* its lists; listDegreePrograms catches the error and returns
\* {error: error.message, hint}; the other handlers let it through.
HandlerOutcome(name, o) ==
    CASE name = "list_enrollments" -> Outcome(FALSE, "none", 0, 0)
      [] name = "list_degree_programs" -> [o EXCEPT !.threw = FALSE]
      [] OTHER -> o

\* The number of upstream HTTP requests a handler may make in sequence.
MaxFetches(name) ==
    CASE name = "list_enrollments" -> 3
      [] name = "list_degree_programs" -> 2
      [] OTHER -> 1

(* --------------------------- API-key middleware ----------------------- *)
IsBearer(word) == word \in {"Bearer", "bearer", "BEARER"}

\* extractApiKey: the Authorization header wins when it is present (its
\* Bearer token, or the whole value when it is not of the Bearer form); only
\* without it the x-api-key header is read; null (here <<>>) otherwise.
extractApiKey(req) ==
    IF req.authorization.set
    THEN LET h == req.authorization.v IN
         IF Len(h) >= 2 /\ IsBearer(h[1]) THEN Tail(h) ELSE h
    ELSE IF req.xApiKey.set THEN req.xApiKey.v
    ELSE <<>>

\* Mutation of ApiKeyDenied: only a wrong key is refused, a missing one passes.
ApiKeyDeniedLenient(req) ==
    /\ apiKey # NoKey
    /\ LET provided == extractApiKey(req) IN provided # <<>> /\ provided # apiKey

\* if (apiKey) app.use(...): !provided || provided !== apiKey
ApiKeyDenied(req) ==
    /\ apiKey # NoKey
    /\ LET provided == extractApiKey(req) IN provided = <<>> \/ provided # apiKey

(* --------------------------- instances -------------------------------- *)
\* let browserPromise = null inside createCourseraServer: every instance
\* closes over its own browser cell.
\* Mutation of BrowserCell: one module-level browserPromise for every instance.
BrowserCellShared(i) == 1

\* let browserPromise = null inside createCourseraServer: the cell holding
\* the browser of instance i belongs to instance i.
BrowserCell(i) == i

\* An instance: its browserPromise (none, launching, open, failed, closing,
\* closed), whether close hooks are suspended on it, the number of runs of
\* the close hook, the number of browser.close() calls made and the number of
\* puppeteer.launch() calls made, and the number of pages that were opened by
\* a call that is over and were never closed.
NewServer ==
    [browser |-> "none", hookWaiting |-> FALSE, hooks |-> 0, closes |-> 0, launches |-> 0,
     leaked |-> 0]
NewTransport == [sessionId |-> NoSid, closed |-> FALSE]

\* The tool invocations in flight: a bag of [inst, tool, pc, n] (the instance
\* running the handler, the handler, where it is suspended, and the number
\* of upstream requests it has made).
Call(inst, tool, pc, n) == [inst |-> inst, tool |-> tool, pc |-> pc, n |-> n]
InFlight == BagToSet(calls)
Start(bag, c) == bag (+) SetToBag({c})
Finish(bag, c) == bag (-) SetToBag({c})

\* Mutation of getBrowser: the handle is kept instead of the promise, so a
\* call arriving while the launch is pending launches again.
getBrowserKeepsHandle(srv, i) ==
    IF srv[BrowserCell(i)].browser \in {"none", "launching"}
    THEN [srv EXCEPT ![BrowserCell(i)].browser = "launching",
                     ![BrowserCell(i)].launches = IF @ < MaxCalls THEN @ + 1 ELSE @]
    ELSE srv

\* getBrowser: launch once while browserPromise is null.
getBrowser(srv, i) ==
    IF srv[BrowserCell(i)].browser = "none"
    THEN [srv EXCEPT ![BrowserCell(i)].browser = "launching",
                     ![BrowserCell(i)].launches = @ + 1]
    ELSE srv

\* server.onclose: if (browserPromise) { await browserPromise; await browser.close() }
\* Returns the servers after the hook ran up to its suspension, and whether it
\* rejected (awaiting a rejected browserPromise).  The hook keeps no record
\* of having run: a run that finds the browser already closing or closed
\* calls browser.close() on it again.
CloseHook(srv, i) ==
    LET b == srv[BrowserCell(i)].browser
        ran == [srv EXCEPT ![i].hooks = @ + 1]
    IN  CASE b = "none"      -> [srv |-> ran, rejected |-> FALSE]
          [] b = "launching" -> [srv |-> [ran EXCEPT ![BrowserCell(i)].hookWaiting = TRUE],
                                 rejected |-> FALSE]
          [] b = "open"      -> [srv |-> [ran EXCEPT ![BrowserCell(i)].browser = "closing",
                                                     ![BrowserCell(i)].closes = @ + 1],
                                 rejected |-> FALSE]
          [] b = "failed"    -> [srv |-> ran, rejected |-> TRUE]
          [] OTHER           -> [srv |-> [ran EXCEPT ![BrowserCell(i)].closes = @ + 1],
                                 rejected |-> FALSE]

(* ------------------------------ teardown ------------------------------ *)
\* Mutation of cleanupSession: the record is closed but stays in the table.
cleanupSessionKeepsRecord(table, sid) ==
    [ table |-> table,
      closing |-> IF HasSession(table, sid) THEN GetSession(table, sid).server ELSE 0 ]

\* cleanupSession up to its await: look the record up, delete it, and if it
\* had a server, call server.close().  Returns the table and the instance
\* whose server is being closed (0 when there was no record).
cleanupSession(table, sid) ==
    [ table |-> DeleteSession(table, sid),
      closing |-> IF HasSession(table, sid) THEN GetSession(table, sid).server ELSE 0 ]

\* transport.close() of instance i completing: the transport is closed and
\* its onclose runs, i.e. the dispatcher's callback (cleanupSession of the
\* transport's session id, whose server.close() closes the same transport
\* again, so that cleanupSession re-enters with the record gone) and then
\* the server's close hook.  The transport closed again from server.close()
\* runs its onclose as well: when the record was there, the close hook runs
\* once for the inner close and once for the outer one.
TransportClosed(table, trs, srv, i) ==
    LET sid == trs[i].sessionId
        first == cleanupSession(table, sid)
        again == IF first.closing # 0 THEN cleanupSession(first.table, sid) ELSE first
        inner == IF first.closing # 0 THEN CloseHook(srv, i)
                 ELSE [srv |-> srv, rejected |-> FALSE]
        hook == CloseHook(inner.srv, i)
    IN  [ table |-> IF sid # NoSid THEN again.table ELSE table,
          trs |-> [trs EXCEPT ![i].closed = TRUE],
          srv |-> hook.srv,
          rejected |-> inner.rejected \/ hook.rejected ]

\* What an awaited close can do: resolve, reject, or never settle.
CloseOutcomes == {"ok", "throw", "hang"}

(* ------------------------------ the process --------------------------- *)
Running == exit = -1 /\ ~unhandled /\ proc.started
\* httpServer.close() stops the listener: no request is accepted afterwards.
Listening == Running /\ proc.binding = "http" /\ sig.pc # "closing"
\* The SIGINT handler's loop goes on in the turn in which a promise was
\* rejected unhandled; the process ends when that turn is over.
Alive == exit = -1

\* app.use: the API-key check answers 401 before any route runs.
Unauthorized(r) ==
    /\ Listening
    /\ ApiKeyDenied(r)
    /\ last' = Answer("unauthorized", 401, "Unauthorized", TRUE, FALSE)
    /\ UNCHANGED <<apiKey, proc, orphans, sessions, issued, transports, servers, calls, sig, exit, unhandled>>

\* The requests sent to /health: GET with every form of credentials and any
\* session header.
HealthRequests ==
    { Request(cr, sid, Shape("GET", "nobody", TRUE, "", NoArgs)) :
        cr \in Credentials, sid \in 0..MaxSessions }

\* app.get("/health"), registered after the API-key check: a request gets to
\* the route only when the check lets it through, and is answered
\* {status: "ok", service: "coursera-mcp"} there.
Health(r) ==
    /\ Listening
    /\ r.method = "GET"
    /\ last' = IF ApiKeyDenied(r)
               THEN Answer("unauthorized", 401, "Unauthorized", TRUE, FALSE)
               ELSE Answer("health", 200, "none", TRUE, FALSE)
    /\ UNCHANGED <<apiKey, proc, orphans, sessions, issued, transports, servers, calls, sig, exit, unhandled>>

\* Mutation of UnknownSession: the instance is built before the lookup.
UnknownSessionBuildsFirst(r) ==
    /\ Listening
    /\ ~ApiKeyDenied(r)
    /\ r.sid # NoSid
    /\ ~HasSession(sessions, r.sid)
    /\ orphans < MaxOrphans
    /\ orphans' = orphans + 1
    /\ last' = Answer("unknown_session", 400, "No valid session ID provided", TRUE, FALSE)
    /\ UNCHANGED <<apiKey, proc, sessions, issued, transports, servers, calls, sig, exit, unhandled>>

\* getStreamableTransport, session header present but not in the table.
UnknownSession(r) ==
    /\ Listening
    /\ ~ApiKeyDenied(r)
    /\ r.sid # NoSid
    /\ ~HasSession(sessions, r.sid)
    /\ last' = Answer("unknown_session", 400, "No valid session ID provided", TRUE, FALSE)
    /\ UNCHANGED <<apiKey, proc, orphans, sessions, issued, transports, servers, calls, sig, exit, unhandled>>

\* Mutation of hasInitializeRequest: any body at all counts as initializing.
hasInitializeRequestAnyBody(body) == body # "nobody"

\* hasInitializeRequest(req.body)
hasInitializeRequest(body) == body \in {"initialize", "batch_initialize"}

\* getStreamableTransport, no session header and not an initializing POST.
NoSession(r) ==
    /\ Listening
    /\ ~ApiKeyDenied(r)
    /\ r.sid = NoSid
    /\ r.method # "POST" \/ ~hasInitializeRequest(r.body)
    /\ last' = Answer("no_session", 400, "No valid session ID provided", TRUE, FALSE)
    /\ UNCHANGED <<apiKey, proc, orphans, sessions, issued, transports, servers, calls, sig, exit, unhandled>>

\* sessionIdGenerator: () => randomUUID(): an identifier never issued before
\* (the identifiers are issued in increasing order).
Unissued == SessionIds \ issued
randomUUID == CHOOSE sid \in Unissued : \A other \in Unissued : sid <= other

\* getStreamableTransport, no session header and an initializing POST: a new
\* instance and transport are built and connected, then the transport
\* handles the request: it either rejects the message (malformed, or a batch
\* with more than the initialize request), which leaves the new instance
\* connected and referenced by nothing (counted in orphans), or assigns a
\* session id and fires onsessioninitialized, which stores the session.
Initialize(r) ==
    /\ Listening
    /\ ~ApiKeyDenied(r)
    /\ r.sid = NoSid
    /\ r.method = "POST" /\ hasInitializeRequest(r.body)
    /\ IF r.wellFormed /\ r.body = "initialize"
       THEN /\ Unissued # {}
            /\ LET sid == randomUUID
                   i == Len(servers) + 1 IN
              /\ issued' = issued \cup {sid}
              /\ servers' = Append(servers, NewServer)
              /\ transports' = Append(transports, [NewTransport EXCEPT !.sessionId = sid])
              /\ sessions' = storeSession(sessions, sid, i, i)
              /\ last' = Answer("init", 200, "none", TRUE, FALSE)
            /\ UNCHANGED orphans
       ELSE /\ orphans < MaxOrphans
            /\ orphans' = orphans + 1
            /\ last' = Answer("init", 400, "Invalid Request", TRUE, FALSE)
            /\ UNCHANGED <<sessions, issued, servers, transports>>
    /\ UNCHANGED <<apiKey, proc, calls, sig, exit, unhandled>>

\* getStreamableTransport returning the transport of a known session.
Route(r) == GetSession(sessions, r.sid).transport

Routable(r) ==
    /\ Listening
    /\ ~ApiKeyDenied(r)
    /\ r.sid # NoSid
    /\ HasSession(sessions, r.sid)

\* transport.handleRequest for a message that reaches no tool handler: a
\* malformed message, a GET (event stream), a repeated initialize, a
\* tools/list, or a POST without a body.
RoutedOther(r) ==
    /\ Routable(r)
    /\ \/ ~r.wellFormed
       \/ r.method = "GET"
       \/ r.method = "POST" /\ r.body # "tools/call"
    /\ last' =
         IF ~r.wellFormed \/ (r.method = "POST" /\ r.body # "tools/list")
         THEN Answer("routed", 400, "Invalid Request", TRUE, FALSE)
         ELSE Answer("routed", 200, "none", TRUE, FALSE)
    /\ UNCHANGED <<apiKey, proc, orphans, sessions, issued, transports, servers, calls, sig, exit, unhandled>>

\* transport.handleRequest for a DELETE: the explicit close message closes
\* the transport; a close that throws reaches the route's catch (500).
RoutedDelete(r, outcome) ==
    /\ Routable(r)
    /\ r.wellFormed /\ r.method = "DELETE"
    /\ outcome \in {"ok", "throw"}
    /\ IF outcome = "ok"
       THEN LET t == TransportClosed(sessions, transports, servers, Route(r)) IN
            /\ sessions' = t.table
            /\ transports' = t.trs
            /\ servers' = t.srv
            /\ unhandled' = t.rejected
            /\ last' = Answer("routed", 200, "none", TRUE, FALSE)
       ELSE /\ last' = Answer("routed", 500, "Internal server error", TRUE, FALSE)
            /\ UNCHANGED <<sessions, transports, servers, unhandled>>
    /\ UNCHANGED <<apiKey, proc, orphans, issued, calls, sig, exit>>

\* The server instance a transport delivers its messages to (server.connect).
ServerOf(transport) == transport

\* CallToolRequestSchema handler: look the handler up, throw "Unknown tool"
\* when there is none, else run handler(args || {}) to its first suspension.
RoutedCall(r) ==
    /\ Routable(r)
    /\ r.wellFormed /\ r.method = "POST" /\ r.body = "tools/call"
    /\ LET i == ServerOf(Route(r)) IN
       LET handler == LookupHandler(r.tool) IN
       IF handler = "undefined"
       THEN /\ last' = Answer("call", 200, "Unknown tool", TRUE, FALSE)
            /\ UNCHANGED <<servers, calls>>
       ELSE LET ok == r.tool \in DOMAIN tools => SatisfiesSchema(r.tool, r.args)
                step == FirstStep(handler, r.args) IN
            IF step \in {"throw", "return"}
            THEN /\ last' = Answer("call", 200,
                                   IF step = "throw" THEN "Tool failed" ELSE "none",
                                   ok, FALSE)
                 /\ UNCHANGED <<servers, calls>>
            ELSE /\ BagCardinality(calls) < MaxCalls
                 /\ calls' = Start(calls, Call(i, handler, step, 1))
                 /\ servers' = IF step = "browser" THEN getBrowser(servers, i) ELSE servers
                 /\ last' = Answer("call", 200, "none", ok, step = "fetch")
    /\ UNCHANGED <<apiKey, proc, orphans, sessions, issued, transports, sig, exit, unhandled>>

(* ------------------------- tool calls in flight ------------------------ *)
\* An upstream HTTP response arrives (or the request fails).  A handler with
\* further requests to make may go on to the next one; a failed first
\* request of list_enrollments leaves nothing to ask for.
FetchSettles(c, resp, more) ==
    LET ok == ResponseOk(resp)
        goesOn == ~more /\ ok /\ c.tool = "list_assignments" IN
    /\ Running
    /\ c \in InFlight
    /\ c.pc = "fetch"
    /\ more => /\ c.n < MaxFetches(c.tool)
               /\ ok \/ c.n > 1
    /\ calls' = IF more THEN Start(Finish(calls, c), [c EXCEPT !.n = @ + 1])
                ELSE IF goesOn
                     THEN Start(Finish(calls, c), [c EXCEPT !.pc = "browser"])
                     ELSE Finish(calls, c)
    /\ servers' = IF goesOn THEN getBrowser(servers, c.inst) ELSE servers
    /\ last' = IF more \/ goesOn THEN last
               ELSE ToolAnswer(HandlerOutcome(c.tool, courseraFetch(resp)))
    /\ UNCHANGED <<apiKey, proc, orphans, sessions, issued, transports, sig, exit, unhandled>>

\* puppeteer.launch settles.  Every close hook suspended on browserPromise
\* goes on: it closes the browser, or rejects with the launch error.
LaunchSettles(i, ok) ==
    /\ Running
    /\ i \in DOMAIN servers
    /\ servers[i].browser = "launching"
    /\ servers' = [servers EXCEPT ![i].browser =
                      IF ~ok THEN "failed"
                      ELSE IF servers[i].hookWaiting THEN "closing" ELSE "open",
                   ![i].hookWaiting = FALSE,
                   ![i].closes = IF ok /\ servers[i].hookWaiting
                                 THEN servers[i].hooks ELSE @]
    /\ unhandled' = (~ok /\ servers[i].hookWaiting)
    /\ UNCHANGED <<apiKey, proc, orphans, sessions, issued, transports, calls, sig, exit, last>>

\* What fetchPageContent ends with: it throws, or returns content of some
\* length.
PageResult(threw, len) == [threw |-> threw, len |-> len]

PageResults ==
    { PageResult(TRUE, 0) } \cup { PageResult(FALSE, len) : len \in {0, 100, 101} }

\* getAssignment: const urls = [.../quiz/..., .../exam/..., .../assignment/...]
urls == <<"quiz", "exam", "assignment">>

\* Mutation of AcceptsContent: any content is taken.
AcceptsContentAny(len) == len >= 0

\* getAssignment: result.content && result.content.length > 100
AcceptsContent(len) == len > 100

\* The calls in flight once a fetchPageContent of the call c is over.
\* getAssignment returns when the candidate was accepted, goes on to the
\* next candidate (for (const url of urls), catch: continue) when there is
\* one, and throws after the last; every other handler is over.
AfterCandidate(bag, c, accepted) ==
    IF c.tool = "get_assignment" /\ ~accepted /\ c.n < Len(urls)
    THEN Start(Finish(bag, c), [c EXCEPT !.pc = "browser", !.n = @ + 1])
    ELSE Finish(bag, c)

\* What getAssignment is answered with when it is over: the result of the
\* candidate it accepted, or "Could not find assignment".
AnswerAfterCandidate(c, accepted, len) ==
    IF c.tool # "get_assignment" \/ (~accepted /\ c.n < Len(urls)) THEN last
    ELSE [ path |-> "result", status |-> 200,
           error |-> IF accepted THEN "none" ELSE "Could not find assignment",
           schemaOk |-> TRUE, upstream |-> TRUE,
           candidate |-> IF accepted THEN urls[c.n] ELSE "none",
           contentLen |-> IF accepted THEN len ELSE 0 ]

\* createAuthenticatedPage past "await getBrowser()": browser.newPage() on
\* the settled browserPromise, which fails when the launch failed or the
\* browser is no longer open, then page.setCookie, page.setUserAgent and
\* page.setViewport on the new page.  When one of these rejects (ok false)
\* createAuthenticatedPage throws with the page open: no try/finally
\* encloses it, so the call is over and nothing closes the page.
PageOpens(c, ok) ==
    /\ Running
    /\ c \in InFlight
    /\ c.pc = "browser"
    /\ LET b == servers[BrowserCell(c.inst)].browser IN
       /\ b # "launching" /\ b # "none"
       /\ b # "open" => ok
       /\ calls' = IF b = "open" /\ ok
                   THEN Start(Finish(calls, c), [c EXCEPT !.pc = "nav"])
                   ELSE AfterCandidate(calls, c, FALSE)
       /\ IF b = "open" /\ ~ok
          THEN /\ servers[BrowserCell(c.inst)].leaked < MaxOrphans
               /\ servers' = [servers EXCEPT ![BrowserCell(c.inst)].leaked = @ + 1]
          ELSE UNCHANGED servers
       /\ last' = IF b = "open" /\ ok THEN last ELSE AnswerAfterCandidate(c, FALSE, 0)
    /\ UNCHANGED <<apiKey, proc, orphans, sessions, issued, transports, sig, exit, unhandled>>

\* page.goto and the extraction settle (either way); finally page.close().
\* fetchPageContent throws or returns the content it extracted; getAssignment
\* takes it from there, the other handlers return or throw accordingly.
NavSettles(c, res) ==
    LET accepted == ~res.threw /\ AcceptsContent(res.len) IN
    /\ Running
    /\ c \in InFlight
    /\ c.pc = "nav"
    /\ calls' = AfterCandidate(calls, c, accepted)
    /\ servers' = IF c.tool = "get_assignment" /\ ~accepted /\ c.n < Len(urls)
                  THEN getBrowser(servers, c.inst) ELSE servers
    /\ last' = AnswerAfterCandidate(c, accepted, res.len)
    /\ UNCHANGED <<apiKey, proc, orphans, sessions, issued, transports, sig, exit, unhandled>>

\* browser.close() issued by the close hook settles.
BrowserCloseSettles(i, ok) ==
    /\ Running
    /\ i \in DOMAIN servers
    /\ servers[i].browser = "closing"
    /\ servers' = [servers EXCEPT ![i].browser = IF ok THEN "closed" ELSE "open"]
    /\ unhandled' = ~ok
    /\ UNCHANGED <<apiKey, proc, orphans, sessions, issued, transports, calls, sig, exit, last>>

(* ---------------------------- SIGINT handler -------------------------- *)
\* Where the handler is once the identifiers ids are left to shut down: at
\* the next shutdownSession, or past the loop, where httpServer.close(...)
\* has been called and the listener accepts nothing more.
LoopAt(ids) == IF ids = <<>> THEN "closing" ELSE "shutdown"

\* process.on("SIGINT"): snapshot the keys, then shut the sessions down one
\* after the other, each awaited before the next.
Sigint ==
    /\ Running
    /\ proc.binding = "http"
    /\ sig.pc = "idle"
    /\ sig' = [pc |-> LoopAt(KeysInOrder(sessions)), ids |-> KeysInOrder(sessions),
               snapshot |-> SessionKeys]
    /\ UNCHANGED <<apiKey, proc, orphans, sessions, issued, transports, servers, calls, exit, unhandled, last>>

\* shutdownSession up to "await cleanupSession": close the transport of the
\* session if it is still in the table, ignoring an error.
ShutdownTransport(outcome) ==
    /\ Alive
    /\ sig.pc = "shutdown"
    /\ sig.ids # <<>>
    /\ LET sid == Head(sig.ids) IN
       IF HasSession(sessions, sid)
       THEN /\ outcome \in CloseOutcomes
            /\ IF outcome = "ok"
               THEN LET t == TransportClosed(sessions, transports, servers,
                                             GetSession(sessions, sid).transport) IN
                    /\ sessions' = t.table
                    /\ transports' = t.trs
                    /\ servers' = t.srv
                    /\ unhandled' = (unhandled \/ t.rejected)
               ELSE UNCHANGED <<sessions, transports, servers, unhandled>>
            /\ sig' = [sig EXCEPT !.pc = IF outcome = "hang" THEN "stuck" ELSE "cleanup"]
       ELSE /\ outcome = "ok"
            /\ sig' = [sig EXCEPT !.pc = "cleanup"]
            /\ UNCHANGED <<sessions, transports, servers, unhandled>>
    /\ UNCHANGED <<apiKey, proc, orphans, issued, calls, exit, last>>

\* "await cleanupSession(sessionId)" of shutdownSession: delete the record
\* and close its server (which closes the transport), ignoring an error;
\* then the loop goes to the next identifier, or ends.
ShutdownCleanup(outcome) ==
    /\ Alive
    /\ sig.pc = "cleanup"
    /\ LET sid == Head(sig.ids)
           c == cleanupSession(sessions, sid) IN
       IF c.closing # 0
       THEN /\ outcome \in CloseOutcomes
            /\ IF outcome = "ok"
               THEN LET t == TransportClosed(c.table, transports, servers, c.closing) IN
                    /\ sessions' = t.table
                    /\ transports' = t.trs
                    /\ servers' = t.srv
                    /\ unhandled' = (unhandled \/ t.rejected)
               ELSE /\ sessions' = c.table
                    /\ UNCHANGED <<transports, servers, unhandled>>
            /\ sig' = IF outcome = "hang" THEN [sig EXCEPT !.pc = "stuck"]
                      ELSE [sig EXCEPT !.pc = LoopAt(Tail(sig.ids)), !.ids = Tail(@)]
       ELSE /\ outcome = "ok"
            /\ sig' = [sig EXCEPT !.pc = LoopAt(Tail(sig.ids)), !.ids = Tail(@)]
            /\ UNCHANGED <<sessions, transports, servers, unhandled>>
    /\ UNCHANGED <<apiKey, proc, orphans, issued, calls, exit, last>>

\* The close callback: process.exit(0).
Exit ==
    /\ Running
    /\ sig.pc = "closing"
    /\ exit' = 0
    /\ UNCHANGED <<apiKey, proc, orphans, sessions, issued, transports, servers, calls, sig, unhandled, last>>

\* A rejected promise nobody handles (the async close hook is called, not
\* awaited) ends the process with a non-zero code.
Crash ==
    /\ exit = -1
    /\ unhandled
    /\ exit' = 1
    /\ UNCHANGED <<apiKey, proc, orphans, sessions, issued, transports, servers, calls, sig, unhandled, last>>

(* ------------------------------ startup ------------------------------ *)
\* The module body of either entry point up to the point where it serves.
\* The HTTP server calls getCourseraConfig() first and exits with 1 when it
\* throws, then builds the app and listens.  The stdio server calls
\* createCourseraServer(), which calls getCourseraConfig(); main() rejects
\* when it throws and the catch exits with 1; otherwise the one instance is
\* connected to the stdio transport.
Startup ==
    /\ exit = -1
    /\ ~proc.started
    /\ IF MissingCredentials(proc)
       THEN /\ exit' = 1
            /\ UNCHANGED <<proc, servers, transports>>
       ELSE /\ proc' = [proc EXCEPT !.started = TRUE]
            /\ servers' = IF proc.binding = "stdio" THEN Append(servers, NewServer)
                          ELSE servers
            /\ transports' = IF proc.binding = "stdio" THEN Append(transports, NewTransport)
                             ELSE transports
            /\ UNCHANGED exit
    /\ UNCHANGED <<apiKey, sessions, issued, orphans, calls, sig, unhandled, last>>

(* ------------------------------- Init --------------------------------- *)
\* The process as it is started: any entry point, any environment.
InitBoot ==
    /\ apiKey \in {NoKey, TheKey}
    /\ proc \in { Process(binding, cookies, cauth, FALSE) :
                     binding \in {"http", "stdio"},
                     cookies \in EnvValues, cauth \in EnvValues }
    /\ sessions = <<>>
    /\ issued = {}
    /\ orphans = 0
    /\ transports = <<>>
    /\ servers = <<>>
    /\ calls = EmptyBag
    /\ sig = [pc |-> "idle", ids |-> <<>>, snapshot |-> {}]
    /\ exit = -1
    /\ unhandled = FALSE
    /\ last = NoLast

\* The HTTP server once it listens, with COURSERA_CAUTH configured.
Init ==
    /\ apiKey \in {NoKey, TheKey}
    /\ proc = Process("http", Unset, "value", TRUE)
    /\ sessions = <<>>
    /\ issued = {}
    /\ orphans = 0
    /\ transports = <<>>
    /\ servers = <<>>
    /\ calls = EmptyBag
    /\ sig = [pc |-> "idle", ids |-> <<>>, snapshot |-> {}]
    /\ exit = -1
    /\ unhandled = FALSE
    /\ last = NoLast

McpRequest(r) ==
    \/ Unauthorized(r)
    \/ UnknownSession(r)
    \/ NoSession(r)
    \/ Initialize(r)
    \/ RoutedOther(r)
    \/ \E outcome \in {"ok", "throw"} : RoutedDelete(r, outcome)
    \/ RoutedCall(r)

ToolStep ==
    \/ \E c \in InFlight, resp \in Responses, more \in BOOLEAN :
          FetchSettles(c, resp, more)
    \/ \E i \in SessionIds, ok \in BOOLEAN : LaunchSettles(i, ok)
    \/ \E c \in InFlight, ok \in BOOLEAN : PageOpens(c, ok)
    \/ \E c \in InFlight : (\E res \in PageResults : NavSettles(c, res))
    \/ \E i \in SessionIds, ok \in BOOLEAN : BrowserCloseSettles(i, ok)

ShutdownStep ==
    \/ \E outcome \in CloseOutcomes : ShutdownTransport(outcome)
    \/ \E outcome \in CloseOutcomes : ShutdownCleanup(outcome)
    \/ Exit

Next ==
    \/ Startup
    \/ \E r \in Requests : McpRequest(r)
    \/ \E r \in HealthRequests : Health(r)
    \/ ToolStep
    \/ Sigint
    \/ ShutdownStep
    \/ Crash

Spec == InitBoot /\ [][Next]_vars

(* ------------------- the program under narrower inputs ----------------- *)
\* The same program with the environment narrowed: which requests clients
\* send and whether the signal is delivered.
\*   SpecHttp      MCP_API_KEY configured or not; every credential and every
\*                 request form but tools/call; no signal.
\*   SpecCalls     no API key configured; clients initialize, close sessions
\*                 and send every tools/call that needs no browser.
\*   SpecSessions  no API key configured; clients initialize, close and
\*                 probe sessions; SIGINT is delivered once.
\*   SpecTools     no API key configured; clients initialize, call get_course
\*                 and get_lecture with valid arguments, and close sessions;
\*                 the set-up of a new page succeeds.
\*   SpecPages     no API key configured; clients initialize and call
\*                 get_lecture; the set-up of a new page may fail.
\*   SpecStartup   the process from its start, under either entry point and
\*                 any environment; then as SpecHttp.
\*   SpecHealth    as SpecHttp, and clients ask /health with every form of
\*                 credentials.
\*   SpecResults   no API key configured; clients initialize and call the
\*                 tools that ask the Coursera API, which answers with any
\*                 status and body.
\*   SpecAssignment  no API key configured; clients initialize and call
\*                 get_assignment; a page gives any content or fails.
\*   SpecTeardown  no API key configured; clients initialize, call
\*                 list_assignments and close their sessions.
\*   SpecReadme    no API key configured; clients initialize and call every
\*                 tool the README names.
\*   SpecOrder     no API key configured; clients initialize and send
\*                 list_enrollments, then get_course behind it.
\*   SpecTimeouts  no API key configured; clients initialize and call
\*                 get_course, list_enrollments and get_lecture, one call at
\*                 a time; a
\*                 navigation settles within its timeout.
\*   SpecShutdown  as SpecSessions, and clients call get_lecture.
\*   SpecShutdownFair  SpecShutdown with the event loop running whatever of
\*                 the SIGINT handler is runnable.
InitNoKey == Init /\ apiKey = NoKey

HttpRequests == { r \in Requests : r.body # "tools/call" }

NextHttp ==
    \E r \in HttpRequests :
        \/ Unauthorized(r)
        \/ UnknownSession(r)
        \/ NoSession(r)
        \/ Initialize(r)
        \/ RoutedOther(r)
        \/ \E outcome \in {"ok", "throw"} : RoutedDelete(r, outcome)

SpecHttp == Init /\ [][NextHttp]_vars

NextStartup ==
    \/ Startup
    \/ NextHttp

SpecStartup == InitBoot /\ [][NextStartup]_vars

NextHealth ==
    \/ \E r \in HealthRequests : Health(r)
    \/ NextHttp

SpecHealth == Init /\ [][NextHealth]_vars

Accepted(r) == r.authorization = GoodCredentials.authorization /\ r.wellFormed

SessionRequests ==
    { r \in Requests : /\ Accepted(r)
                       /\ \/ r.body = "initialize" /\ r.sid = NoSid
                          \/ r.body = "tools/list"
                          \/ r.method = "DELETE" }

NextSessions ==
    \/ \E r \in SessionRequests :
          \/ Initialize(r)
          \/ UnknownSession(r)
          \/ NoSession(r)
          \/ RoutedOther(r)
          \/ \E outcome \in {"ok", "throw"} : RoutedDelete(r, outcome)
    \/ Sigint
    \/ ShutdownStep

SpecSessions == InitNoKey /\ [][NextSessions]_vars

IsBrowserCall(r) ==
    /\ r.body = "tools/call"
    /\ r.tool \in toolHandlers
    /\ FirstStep(r.tool, r.args) = "browser"

CallRequests ==
    { r \in Requests : /\ Accepted(r)
                       /\ \/ r.body = "initialize" /\ r.sid = NoSid
                          \/ r.body = "tools/call" /\ ~IsBrowserCall(r)
                          \/ r.method = "DELETE" }

NextCalls ==
    \/ \E r \in CallRequests :
          \/ Initialize(r)
          \/ UnknownSession(r)
          \/ NoSession(r)
          \/ RoutedDelete(r, "ok")
          \/ RoutedCall(r)
    \/ \E c \in InFlight, resp \in PlainResponses, more \in BOOLEAN :
          FetchSettles(c, resp, more)

SpecCalls == InitNoKey /\ [][NextCalls]_vars

ToolRequests ==
    { r \in Requests : /\ Accepted(r)
                       /\ \/ r.body = "initialize" /\ r.sid = NoSid
                          \/ r.body = "tools/call" /\ r.tool \in {"get_course", "get_lecture"}
                                /\ SatisfiesSchema(r.tool, r.args)
                          \/ r.method = "DELETE" }

NextTools ==
    \/ \E r \in ToolRequests :
          \/ Initialize(r)
          \/ UnknownSession(r)
          \/ RoutedDelete(r, "ok")
          \/ RoutedCall(r)
    \/ \E c \in InFlight, resp \in PlainResponses, more \in BOOLEAN :
          FetchSettles(c, resp, more)
    \/ \E i \in SessionIds, ok \in BOOLEAN : LaunchSettles(i, ok)
    \/ \E c \in InFlight : PageOpens(c, TRUE)
    \/ \E c \in InFlight : (\E res \in PageResults : NavSettles(c, res))
    \/ \E i \in SessionIds, ok \in BOOLEAN : BrowserCloseSettles(i, ok)
    \/ Crash

SpecTools == InitNoKey /\ [][NextTools]_vars

PageRequests ==
    { r \in Requests : /\ Accepted(r)
                       /\ \/ r.body = "initialize" /\ r.sid = NoSid
                          \/ r.body = "tools/call" /\ r.tool = "get_lecture"
                                /\ SatisfiesSchema(r.tool, r.args) }

NextPages ==
    \/ \E r \in PageRequests :
          \/ Initialize(r)
          \/ RoutedCall(r)
    \/ \E i \in SessionIds, ok \in BOOLEAN : LaunchSettles(i, ok)
    \/ \E c \in InFlight, ok \in BOOLEAN : PageOpens(c, ok)
    \/ \E c \in InFlight : (\E res \in PageResults : NavSettles(c, res))

SpecPages == InitNoKey /\ [][NextPages]_vars

ResultRequests ==
    { r \in Requests : /\ Accepted(r)
                       /\ \/ r.body = "initialize" /\ r.sid = NoSid
                          \/ r.body = "tools/call"
                                /\ FirstStep(r.tool, r.args) = "fetch"
                                /\ SatisfiesSchema(r.tool, r.args) }

NextResults ==
    \/ \E r \in ResultRequests :
          \/ Initialize(r)
          \/ RoutedCall(r)
    \/ \E c \in InFlight, resp \in Responses, more \in BOOLEAN :
          FetchSettles(c, resp, more)

SpecResults == InitNoKey /\ [][NextResults]_vars

\* Clients that initialize, call list_assignments (an upstream request, then
\* the browser) and close their sessions.
TeardownRequests ==
    { r \in Requests : Accepted(r) /\ \/ r.body = "initialize" /\ r.sid = NoSid
                                      \/ r.method = "DELETE" }
    \cup { Request(GoodCredentials, sid,
                   Shape("POST", "tools/call", TRUE, "list_assignments",
                         Args({"course_slug"}, 0))) : sid \in 1..MaxSessions }

NextTeardown ==
    \/ \E r \in TeardownRequests :
          \/ Initialize(r)
          \/ RoutedDelete(r, "ok")
          \/ RoutedCall(r)
    \/ \E c \in InFlight, resp \in PlainResponses : FetchSettles(c, resp, FALSE)
    \/ \E i \in SessionIds, ok \in BOOLEAN : LaunchSettles(i, ok)
    \/ \E c \in InFlight : PageOpens(c, TRUE)
    \/ \E c \in InFlight, res \in PageResults : NavSettles(c, res)
    \/ \E i \in SessionIds, ok \in BOOLEAN : BrowserCloseSettles(i, ok)
    \/ Crash

SpecTeardown == InitNoKey /\ [][NextTeardown]_vars

\* Clients calling get_assignment with the arguments its schema requires.
AssignmentRequests ==
    { r \in Requests : Accepted(r) /\ r.body = "initialize" /\ r.sid = NoSid }
    \cup { Request(GoodCredentials, sid,
                   Shape("POST", "tools/call", TRUE, "get_assignment",
                         Args({"course_slug", "item_id"}, 0))) : sid \in 1..MaxSessions }

NextAssignment ==
    \/ \E r \in AssignmentRequests :
          \/ Initialize(r)
          \/ RoutedCall(r)
    \/ \E i \in SessionIds, ok \in BOOLEAN : LaunchSettles(i, ok)
    \/ \E c \in InFlight, ok \in BOOLEAN : PageOpens(c, ok)
    \/ \E c \in InFlight, res \in PageResults : NavSettles(c, res)

SpecAssignment == InitNoKey /\ [][NextAssignment]_vars

\* README.md, "Available Tools": the tools the documentation names.
AvailableTools ==
    { "list_enrollments", "get_course", "list_course_materials", "get_lecture",
      "get_reading", "list_assignments", "get_assignment", "get_progress",
      "search_courses", "list_specializations", "get_deadlines" }

\* Clients calling the documented tools by name.
ReadmeRequests ==
    { r \in Requests : Accepted(r) /\ r.body = "initialize" /\ r.sid = NoSid }
    \cup { Request(GoodCredentials, sid, Shape("POST", "tools/call", TRUE, name, NoArgs)) :
             sid \in 1..MaxSessions, name \in AvailableTools }

NextReadme ==
    \/ \E r \in ReadmeRequests :
          \/ Initialize(r)
          \/ RoutedCall(r)
    \/ \E c \in InFlight, resp \in PlainResponses : FetchSettles(c, resp, FALSE)
    \/ \E i \in SessionIds, ok \in BOOLEAN : LaunchSettles(i, ok)
    \/ \E c \in InFlight : PageOpens(c, TRUE)
    \/ \E c \in InFlight : (\E res \in PageResults : NavSettles(c, res))

SpecReadme == InitNoKey /\ [][NextReadme]_vars

\* Clients that send, on a session with nothing in flight, list_enrollments,
\* and get_course only behind a list_enrollments that is still in flight:
\* whenever both are in flight on a session, list_enrollments arrived first.
OrderRequests ==
    { r \in Requests : /\ Accepted(r)
                       /\ \/ r.body = "initialize" /\ r.sid = NoSid
                          \/ r.body = "tools/call"
                                /\ r.tool \in {"list_enrollments", "get_course"}
                                /\ SatisfiesSchema(r.tool, r.args) }

ToolsOn(sid) ==
    { c.tool : c \in { d \in InFlight : d.inst = GetSession(sessions, sid).server } }

NextOrder ==
    \/ \E r \in OrderRequests :
          \/ Initialize(r)
          \/ /\ HasSession(sessions, r.sid)
             /\ ToolsOn(r.sid) = IF r.tool = "get_course" THEN {"list_enrollments"} ELSE {}
             /\ RoutedCall(r)
    \/ \E c \in InFlight, resp \in Responses, more \in BOOLEAN :
          FetchSettles(c, resp, more)

SpecOrder == InitNoKey /\ [][NextOrder]_vars

TimeoutRequests ==
    { r \in Requests : /\ Accepted(r)
                       /\ \/ r.body = "initialize" /\ r.sid = NoSid
                          \/ r.body = "tools/call"
                                /\ r.tool \in {"get_course", "list_enrollments", "get_lecture"}
                                /\ SatisfiesSchema(r.tool, r.args) }

NextTimeouts ==
    \/ \E r \in TimeoutRequests :
          \/ Initialize(r)
          \/ calls = EmptyBag /\ RoutedCall(r)
    \/ \E c \in InFlight, resp \in PlainResponses, more \in BOOLEAN :
          FetchSettles(c, resp, more)
    \/ \E i \in SessionIds, ok \in BOOLEAN : LaunchSettles(i, ok)
    \/ \E c \in InFlight : PageOpens(c, TRUE)
    \/ \E c \in InFlight : (\E res \in PageResults : NavSettles(c, res))

\* The calls that are suspended on an upstream HTTP request or on a browser
\* navigation.
UpstreamCalls ==
    { Call(i, tool, pc, n) : i \in SessionIds, n \in 1..3,
                             tool \in {"get_course", "list_enrollments", "get_lecture"},
                             pc \in {"fetch", "nav"} }

\* page.goto is given timeout: 30000, so a navigation that gets no answer
\* settles (with an error) all the same; fetch is given no timeout and no
\* AbortSignal, so nothing in the code makes a pending upstream request
\* settle.
SpecTimeouts ==
    /\ InitNoKey
    /\ [][NextTimeouts]_vars
    /\ \A c \in UpstreamCalls : WF_vars((\E res \in PageResults : NavSettles(c, res)))

ShutdownRequests ==
    { r \in Requests : /\ Accepted(r)
                       /\ \/ r.body = "initialize" /\ r.sid = NoSid
                          \/ r.body = "tools/call" /\ r.tool = "get_lecture"
                                /\ SatisfiesSchema(r.tool, r.args)
                          \/ r.method = "DELETE" }

NextShutdown ==
    \/ \E r \in ShutdownRequests :
          \/ Initialize(r)
          \/ UnknownSession(r)
          \/ RoutedDelete(r, "ok")
          \/ RoutedCall(r)
    \/ \E i \in SessionIds, ok \in BOOLEAN : LaunchSettles(i, ok)
    \/ \E c \in InFlight : PageOpens(c, TRUE)
    \/ \E c \in InFlight : (\E res \in PageResults : NavSettles(c, res))
    \/ \E i \in SessionIds, ok \in BOOLEAN : BrowserCloseSettles(i, ok)
    \/ Sigint
    \/ ShutdownStep
    \/ Crash

SpecShutdown == InitNoKey /\ [][NextShutdown]_vars

\* The same program when the event loop keeps running what is runnable: the
\* continuation of the SIGINT handler, and the end of the process.
SpecShutdownFair == SpecShutdown /\ WF_vars(ShutdownStep) /\ WF_vars(Crash)

(* ------------------------------ properties ---------------------------- *)
\* What a request leaves alone when it is refused: the session table, every
\* instance and transport, the instances built, the calls in flight.
Untouched == UNCHANGED <<sessions, issued, orphans, transports, servers, calls>>

NoValidSession(answer) ==
    answer.status = 400 /\ answer.error = "No valid session ID provided"

InitializingBodies == {"initialize", "batch_initialize"}

\* C1: a request that reaches the /mcp route with a session header naming an
\* identifier that is not in the session table is answered 400 with the
\* JSON-RPC error, runs no tool handler, builds no instance and leaves the
\* session table as it was.
C1_UnknownSessionRejected ==
    [][\A r \in Requests :
          (McpRequest(r) /\ r.sid # NoSid /\ r.sid \notin SessionKeys)
             => /\ Untouched
                /\ IF ApiKeyDenied(r) THEN last'.status = 401 ELSE NoValidSession(last')]_vars

C1_Witness ==
    /\ last.path = "unknown_session"
    /\ last.status = 400
    /\ Len(sessions) >= 1
    /\ issued # SessionKeys

\* The identifiers of the sessions that were torn down.
Closed == issued \ SessionKeys

\* C2: a request naming a torn-down session is answered as an unknown
\* session and changes nothing; no step puts a torn-down session back into
\* the table; cleanupSession of a torn-down session, and the re-entrant
\* cleanupSession made while the first one closes the server, find no record
\* and close nothing; a shutdownSession step for a session already removed
\* changes no session, transport or instance, raises nothing and completes.
C2_TornDownStaysClosed ==
    /\ [][/\ \A r \in Requests :
               (McpRequest(r) /\ r.sid \in Closed)
                  => (last'.path = "unknown_session" /\ NoValidSession(last') /\ Untouched)
          /\ \A sid \in Closed : ~HasSession(sessions', sid)
          /\ (/\ ShutdownStep
              /\ sig.pc \in {"shutdown", "cleanup"}
              /\ sig.ids # <<>>
              /\ Head(sig.ids) \notin SessionKeys)
                 => /\ UNCHANGED <<sessions, transports, servers, unhandled>>
                    /\ sig'.pc # "stuck"]_vars
    /\ [](/\ \A sid \in Closed :
               cleanupSession(sessions, sid) = [table |-> sessions, closing |-> 0]
          /\ \A sid \in SessionKeys :
               LET first == cleanupSession(sessions, sid) IN
               cleanupSession(first.table, sid) = [table |-> first.table, closing |-> 0])

\* Every identifier has been issued and torn down, the shutdown loop has run
\* through removed sessions, and the last request (made after the last
\* initialize, so naming an issued identifier) was answered unknown session.
C2_Witness ==
    /\ issued = SessionIds
    /\ SessionKeys = {}
    /\ last.path = "unknown_session"
    /\ sig.pc = "closing"
    /\ sig.snapshot # {}

\* Every instance and transport but those of instance i are left as they were.
OthersUntouched(i) ==
    /\ \A j \in DOMAIN servers : j # i => servers'[j] = servers[j]
    /\ \A j \in DOMAIN transports : j # i => transports'[j] = transports[j]

\* The calls that the step started or moved on.
NewCalls == { c \in BagToSet(calls') : CopiesIn(c, calls') > CopiesIn(c, calls) }

\* C5: two session records never share an instance or a transport; a tool
\* call or a close routed under a session runs on that session's instance,
\* and leaves every other instance (its browser handle) and transport as it
\* was; a step of a call in flight changes the browser of no instance but its
\* own, and a call gets a page only from the open browser of its own
\* instance.
C5_SessionsIsolated ==
    /\ [](\A a, b \in DOMAIN sessions :
             a # b => /\ sessions[a].server # sessions[b].server
                      /\ sessions[a].transport # sessions[b].transport)
    /\ [][/\ \A r \in ToolRequests :
               (RoutedCall(r) \/ RoutedDelete(r, "ok"))
                  => LET i == GetSession(sessions, r.sid).server IN
                     /\ OthersUntouched(i)
                     /\ \A c \in NewCalls : c.inst = i
          /\ \A c \in InFlight :
               (\/ \E resp \in PlainResponses, more \in BOOLEAN : FetchSettles(c, resp, more)
                \/ \E ok \in BOOLEAN : PageOpens(c, ok)
                \/ (\E res \in PageResults : NavSettles(c, res)))
                  => /\ OthersUntouched(c.inst)
                     /\ \A n \in NewCalls : n.inst = c.inst
                     /\ \A n \in NewCalls : n.pc = "nav" => servers[c.inst].browser = "open"
          /\ \A i \in DOMAIN servers :
               (\E ok \in BOOLEAN : LaunchSettles(i, ok) \/ BrowserCloseSettles(i, ok))
                  => OthersUntouched(i)]_vars

\* Two calls of two sessions each hold a page of their own browser.
C5_Witness ==
    \E a, b \in InFlight :
        /\ a.inst # b.inst
        /\ a.pc = "nav" /\ b.pc = "nav"
        /\ servers[a.inst].browser = "open"
        /\ servers[b.inst].browser = "open"
        /\ Len(sessions) = 2

\* C4: a session record appears only in a step handling a POST without
\* session header whose body is or contains an initialize request; any other
\* request without session header is answered 400 with the JSON-RPC error,
\* builds no instance and leaves the session table as it was.
C4_OnlyInitializeCreates ==
    [][/\ \A sid \in SessionIds :
             (HasSession(sessions', sid) /\ ~HasSession(sessions, sid))
                => \E r \in Requests : /\ McpRequest(r)
                                       /\ r.sid = NoSid
                                       /\ r.method = "POST"
                                       /\ r.body \in InitializingBodies
       /\ \A r \in Requests :
             (/\ McpRequest(r)
              /\ ~ApiKeyDenied(r)
              /\ r.sid = NoSid
              /\ ~(r.method = "POST" /\ r.body \in InitializingBodies))
                => (NoValidSession(last') /\ Untouched)]_vars

C4_Witness ==
    /\ last.path = "no_session"
    /\ last.status = 400
    /\ Len(sessions) >= 1

\* C6: a tools/call whose arguments do not satisfy the inputSchema declared
\* for the tool is answered with a validation error, and no upstream HTTP
\* request or browser work is started for it.
C6_InvalidArgumentsRejected ==
    [][\A r \in Requests :
          (RoutedCall(r) /\ r.tool \in DOMAIN tools /\ ~SatisfiesSchema(r.tool, r.args))
             => /\ last'.error = "Validation error"
                /\ ~last'.upstream
                /\ UNCHANGED <<calls, servers>>]_vars

\* A call with arguments outside the schema was dispatched to its handler,
\* whose upstream request is in flight.
C6_Witness ==
    /\ last.path = "call"
    /\ ~last.schemaOk
    /\ last.upstream
    /\ \E c \in InFlight : c.pc = "fetch"

\* C7: a tools/call naming a tool that is not among the registered tools is
\* answered with the "Unknown tool" error, starts no handler and no upstream
\* request, and leaves the session table, the instances and the transports
\* as they were, the session still routing to the same instance.
C7_UnknownToolNotFound ==
    [][\A r \in Requests :
          (RoutedCall(r) /\ r.tool \notin DOMAIN tools)
             => /\ last'.error = "Unknown tool"
                /\ ~last'.upstream
                /\ Untouched
                /\ HasSession(sessions', r.sid)
                /\ GetSession(sessions', r.sid) = GetSession(sessions, r.sid)]_vars

\* C7 for the tool names that no lookup in toolHandlers finds (neither an
\* own property nor one inherited from Object.prototype): "Unknown tool",
\* nothing started, the session kept and routed as before.
C7_UnknownToolNotFoundUnlessInherited ==
    [][\A r \in Requests :
          (RoutedCall(r) /\ r.tool \notin DOMAIN tools \cup InheritedProperties)
             => /\ last'.error = "Unknown tool"
                /\ ~last'.upstream
                /\ Untouched
                /\ HasSession(sessions', r.sid)
                /\ GetSession(sessions', r.sid) = GetSession(sessions, r.sid)]_vars

\* A call was answered "Unknown tool" and its session is still in the table.
C7_Witness ==
    /\ last.path = "call"
    /\ last.error = "Unknown tool"
    /\ Len(sessions) >= 1

\* C9: once the process has ended after a SIGINT, it has ended with code 0
\* and no session that was in the table when the signal arrived is left in
\* it, whatever went wrong while closing any of them.
C9_ShutdownTearsDownAllAndExitsZero ==
    (sig.pc # "idle" /\ exit # -1)
       => /\ exit = 0
          /\ \A sid \in sig.snapshot : ~HasSession(sessions, sid)

\* The process ended with a failure code after the signal while a session
\* that was live at the signal is still in the table.
C9_Witness ==
    /\ sig.pc # "idle"
    /\ exit = 1
    /\ \E sid \in sig.snapshot : HasSession(sessions, sid)

\* C10: when the teardown of one session never completes during shutdown,
\* every other session that was live at the signal is eventually removed
\* (or the process has ended).
C10_StuckTeardownDoesNotBlock ==
    \A sid \in SessionIds :
        [](( sig.pc = "stuck" /\ sid \in sig.snapshot /\ sid # Head(sig.ids) )
              => <>( ~HasSession(sessions, sid) \/ exit # -1 ))

\* The loop is suspended on one session for good while another session of
\* the snapshot is still in the table.
C10_Witness ==
    /\ sig.pc = "stuck"
    /\ \E sid \in sig.snapshot : sid # Head(sig.ids) /\ HasSession(sessions, sid)

\* The request carries the key k in one of its headers: as the Bearer token
\* or the whole value of Authorization, or as the x-api-key header.
PresentsKey(r, k) ==
    \/ /\ r.authorization.set
       /\ \/ r.authorization.v = k
          \/ /\ Len(r.authorization.v) >= 2
             /\ IsBearer(r.authorization.v[1])
             /\ Tail(r.authorization.v) = k
    \/ r.xApiKey.set /\ r.xApiKey.v = k

\* C8: with MCP_API_KEY configured, a request that carries the key in none
\* of its headers is answered 401 with the JSON-RPC error whatever session
\* header and body it has; no session is looked up, created or closed and no
\* instance is built.
C8_MissingKeyRejected ==
    [][\A r \in Requests :
          (apiKey # NoKey /\ McpRequest(r) /\ ~PresentsKey(r, apiKey))
             => (last'.status = 401 /\ last'.error = "Unauthorized" /\ Untouched)]_vars

C8_Witness ==
    /\ apiKey = TheKey
    /\ last.path = "unauthorized"
    /\ last.status = 401
    /\ Len(sessions) >= 1

\* The instances whose session record is not in the table.
Removed == { i \in DOMAIN servers : transports[i].sessionId \notin SessionKeys }

\* C12: the instance of a session is released before its record is removed:
\* whenever the record of an instance is absent from the table, its transport
\* is closed and its browser, if it has one, is closed.
C12_ReleasedBeforeRemoved ==
    \A i \in Removed :
        /\ transports[i].closed
        /\ servers[i].browser \in {"none", "closed"}

\* The record is gone and the browser of its instance is still being closed.
C12_Witness ==
    \E i \in Removed : servers[i].browser = "closing" /\ servers[i].closes >= 1

\* The teardown of instance i is over: its record is removed, its transport
\* closed, and no close hook or browser.close() of it is pending.
TornDown(i) ==
    /\ i \in Removed
    /\ transports[i].closed
    /\ ~servers[i].hookWaiting
    /\ servers[i].browser # "closing"

\* C13: the browser of an instance is not closed while its session is in the
\* table, browser.close() is called on it at most once over all teardown
\* paths, and once the teardown is over it is not open.
C13_BrowserClosedExactlyOnce ==
    \A i \in DOMAIN servers :
        /\ servers[i].closes <= 1
        /\ i \notin Removed => /\ servers[i].closes = 0
                                /\ servers[i].browser \notin {"closing", "closed"}
        /\ TornDown(i) => servers[i].browser \notin {"launching", "open"}

\* The session was closed once, by its client, and browser.close() was
\* called twice on the browser of its instance.
C13_Witness ==
    \E i \in Removed :
        /\ servers[i].hooks = 2
        /\ servers[i].closes = 2
        /\ servers[i].browser = "closed"

\* C14: puppeteer.launch() is called at most once in an instance, however
\* many of its calls ask for the browser and whenever they do; an instance
\* has a browserPromise exactly if it launched, and every call holding a page
\* got it from that one browser.
C14_LaunchedAtMostOnce ==
    \A i \in DOMAIN servers :
        /\ servers[i].launches <= 1
        /\ servers[i].launches = 0 <=> servers[i].browser = "none"
        /\ \A c \in InFlight :
              (c.inst = i /\ c.pc \in {"browser", "nav"}) => servers[i].launches = 1

\* Two calls of one session asked for the browser before its launch settled.
C14_Witness ==
    \E c \in InFlight :
        /\ c.pc = "browser"
        /\ CopiesIn(c, calls) >= 2
        /\ servers[c.inst].browser = "launching"
        /\ servers[c.inst].launches = 1

\* C15: every page that a call opened is closed when the call is over,
\* whichever way it ended, and no call closes the browser of its instance.
C15_PagesClosed ==
    \A i \in DOMAIN servers :
        /\ servers[i].leaked = 0
        /\ servers[i].closes = 0

\* A call ended in the set-up of its page: no call of the instance is in
\* flight, its browser is open, and the page is still open in it.
C15_Witness ==
    \E i \in DOMAIN servers :
        /\ servers[i].leaked = 1
        /\ servers[i].browser = "open"
        /\ \A c \in InFlight : c.inst # i

\* C16: a call suspended on an upstream HTTP request or on a browser
\* navigation does not stay suspended there for ever: the request or the
\* navigation settles, by its timeout if by nothing else.
C16_UpstreamCallsSettle ==
    \A c \in UpstreamCalls : (c \in InFlight) ~> (c \notin InFlight)

\* A call is suspended on its upstream HTTP request.
C16_Witness ==
    \E c \in InFlight : c.pc = "fetch" /\ c.tool = "get_course"

\* C17: a failure inside one invocation stays in that invocation: a step of
\* a call in flight touches no other session, and an invocation dispatched
\* after another one failed does not start from what that failure left
\* behind, so it never finds the browser of its instance already failed.
C17_FailureContained ==
    [][/\ \A c \in InFlight :
            (\E ok \in BOOLEAN : PageOpens(c, ok) \/ LaunchSettles(c.inst, ok))
               => /\ OthersUntouched(c.inst)
                  /\ sessions' = sessions
       /\ \A r \in PageRequests :
            RoutedCall(r) /\ calls' # calls
               => servers'[GetSession(sessions, r.sid).server].browser # "failed"]_vars

\* The launch an invocation asked for has failed, that invocation is over,
\* and its session is still in the table to take the next invocation.
C17_Witness ==
    \E k \in DOMAIN sessions :
        /\ servers[sessions[k].server].browser = "failed"
        /\ calls = EmptyBag
        /\ last.path = "call"

\* The upstream responses whose status is not a success status.
ErrorResponses == { resp \in Responses : resp.status # 0 /\ ~ResponseOk(resp) }

\* C18: whenever an upstream HTTP call of an invocation returns a status
\* that is not a success status, the invocation ends there and is answered
\* with an upstream error that carries that status and at most the first 500
\* characters of the body, whatever the tool.
C18_UpstreamErrorReported ==
    [][\A c \in InFlight, resp \in ErrorResponses :
          (\E more \in BOOLEAN : FetchSettles(c, resp, more))
             => /\ c \notin BagToSet(calls')
                /\ last'.path = "result"
                /\ last'.error = "Coursera API error"
                /\ last'.upstreamStatus = resp.status
                /\ last'.bodyLen <= 500
                /\ last'.bodyLen = IF resp.len < 500 THEN resp.len ELSE 500]_vars

\* An invocation has just been answered after its upstream request came back
\* with an error status and a body longer than 500 characters.
C18_Witness ==
    /\ last.path = "result"
    /\ last.text = "Coursera API error"
    /\ last.upstreamStatus = 500
    /\ last.bodyLen = 500

\* C19: GET /health is answered 200 with the fixed body whether or not an
\* API key is configured and whatever credentials and session header the
\* request carries, and it leaves the session table and every instance as
\* they were.
C19_HealthUnauthenticated ==
    [][\A r \in HealthRequests :
          Health(r) => /\ last'.path = "health"
                       /\ last'.status = 200
                       /\ Untouched]_vars

\* /health has answered 200 while an API key is configured and a session is
\* in the table.
C19_Witness ==
    /\ apiKey # NoKey
    /\ last.path = "health"
    /\ sessions # <<>>

\* C20: an error raised while a session is torn down, the close hook failing
\* to obtain or to close the browser included, is swallowed: no promise is
\* left rejected with nobody to handle it, and the process does not end on
\* a fault.
C20_TeardownErrorsSwallowed ==
    ~unhandled /\ exit # 1

\* The close hook of a torn-down session has failed (its launch had failed,
\* or its browser.close() was rejected) while another session is in the
\* table.
C20_Witness ==
    \E i \in Removed :
        /\ servers[i].hooks > 0
        /\ servers[i].browser \in {"failed", "open"}
        /\ unhandled
        /\ sessions # <<>>

\* Neither credential variable holds a value.
NeitherSet == proc.cookies \in {Unset, ""} /\ proc.cauth \in {Unset, ""}

\* C21: startup ends the process with a non-zero code exactly when neither
\* COURSERA_COOKIES nor COURSERA_CAUTH holds a value (unset or empty), under
\* the HTTP and the stdio entry point alike, and then nothing was served and
\* no session or instance ever exists; when one of them holds a value the
\* process goes on to serve.
C21_FailsFastWithoutCredentials ==
    /\ [](NeitherSet
            => /\ ~proc.started
               /\ sessions = <<>> /\ servers = <<>> /\ transports = <<>>
               /\ last = NoLast)
    /\ [][Startup => IF NeitherSet
                     THEN exit' = 1 /\ ~proc'.started
                     ELSE exit' = -1 /\ proc'.started]_vars

\* The process has exited with code 1 at startup for lack of credentials.
C21_Witness ==
    /\ exit = 1
    /\ ~proc.started
    /\ proc.cookies = Unset /\ proc.cauth = ""

\* C22: the requests of one session are answered in the order in which they
\* arrived: get_course, sent on a session behind a list_enrollments that
\* is still suspended on its upstream request, is not answered before that
\* list_enrollments is.
C22_AnsweredInArrivalOrder ==
    [][\A c \in InFlight :
          (c.tool = "get_course"
             /\ \E resp \in Responses : FetchSettles(c, resp, FALSE))
          => ~\E d \in InFlight : d.inst = c.inst /\ d.tool = "list_enrollments"]_vars

\* A session has its list_enrollments and, behind it, its get_course in
\* flight.
C22_Witness ==
    \E c, d \in InFlight :
        c.inst = d.inst /\ c.tool = "list_enrollments" /\ d.tool = "get_course"

\* C23: every tool the README names under "Available Tools" is declared in
\* the tool list the server returns, and a call to it is dispatched to a
\* handler instead of failing with "Unknown tool".
C23_ReadmeToolsExposed ==
    [][\A r \in ReadmeRequests :
          RoutedCall(r) => /\ r.tool \in DOMAIN tools
                           /\ LookupHandler(r.tool) # "undefined"
                           /\ last'.error # "Unknown tool"]_vars

\* A call to a tool the README names has been answered "Unknown tool".
C23_Witness ==
    /\ last.path = "call"
    /\ last.error = "Unknown tool"
    /\ sessions # <<>>

\* The candidate get_assignment is at after trying k - 1 of them.
CandidateAt(k) == CASE k = 1 -> "quiz" [] k = 2 -> "exam" [] k = 3 -> "assignment"

\* The call c has moved on to its next candidate and nothing was answered.
TriesNext(c) ==
    /\ c.n < 3
    /\ calls' = Start(Finish(calls, c), [c EXCEPT !.pc = "browser", !.n = c.n + 1])
    /\ last' = last

\* The call c is over, answered "Could not find assignment" after its third
\* candidate.
GivesUp(c) ==
    /\ c.n = 3
    /\ calls' = Finish(calls, c)
    /\ last'.error = "Could not find assignment"

\* C24: get_assignment starts at the quiz candidate and tries quiz, exam,
\* assignment in that order; a candidate whose page yields more than 100
\* characters ends the call with that candidate's result and no later
\* candidate is tried; a candidate that throws (opening the page or
\* fetching it) or yields 100 characters or fewer is skipped; the call fails
\* with "Could not find assignment" only after the third candidate.
C24_CandidatesInOrder ==
    [][/\ \A r \in AssignmentRequests :
            RoutedCall(r) => \A c \in NewCalls : c.n = 1 /\ c.pc = "browser"
       /\ \A c \in InFlight :
            /\ (\E ok \in BOOLEAN : PageOpens(c, ok)) /\ c.pc = "browser"
                  => \/ calls' = Start(Finish(calls, c), [c EXCEPT !.pc = "nav"]) /\ last' = last
                     \/ TriesNext(c)
                     \/ GivesUp(c)
            /\ \A res \in PageResults :
                 NavSettles(c, res)
                    => IF ~res.threw /\ res.len > 100
                       THEN /\ calls' = Finish(calls, c)
                            /\ last'.error = "none"
                            /\ last'.candidate = CandidateAt(c.n)
                            /\ last'.contentLen = res.len
                       ELSE TriesNext(c) \/ GivesUp(c)]_vars

\* get_assignment has been answered with the result of its third candidate,
\* the assignment pattern, after the quiz and exam candidates were skipped.
C24_Witness ==
    /\ last.path = "result"
    /\ last.error = "none"
    /\ last.candidate = "assignment"
    /\ last.contentLen = 101

\* C25: every instance and transport built for an initialization request is
\* recorded in the session table or released: none is left connected,
\* unrecorded and unclosed after the request was rejected.
C25_RejectedInitializeReleased ==
    orphans = 0

\* An initialization request has been rejected by the transport after the
\* instance and the transport had been built for it.
C25_Witness ==
    /\ orphans > 0
    /\ last.path = "init"
    /\ last.status = 400

\* The sessions in the table that were not there when the SIGINT handler took
\* its snapshot.
LateSessions == IF sig.pc = "idle" THEN {} ELSE SessionKeys \ sig.snapshot

\* C26: a session that became active after the SIGINT handler took its
\* snapshot is torn down as well before the process exits: once the handler
\* has exited the process, no such session is in the table.
C26_LateSessionTornDown ==
    exit = 0 => LateSessions = {}

\* While the handler is shutting the sessions of its snapshot down, a
\* session that is not in the snapshot is in the table.
C26_Witness ==
    /\ sig.pc = "shutdown"
    /\ exit = -1
    /\ LateSessions # {}

\* C27: no browser is launched for an instance whose close hook has already
\* run, so a tool invocation still in flight when its session is torn down
\* creates no browser handle afterwards.
C27_NoLaunchAfterCloseHook ==
    [][\A i \in DOMAIN servers :
          servers[i].hooks > 0
             => /\ servers'[i].launches = servers[i].launches
                /\ servers[i].browser = "none" => servers'[i].browser = "none"]_vars

\* The close hook of an instance has run while an invocation of that
\* instance is suspended on its upstream request, no browser launched yet.
C27_Witness ==
    \E c \in InFlight :
        /\ c.pc = "fetch"
        /\ c.tool = "list_assignments"
        /\ servers[c.inst].hooks > 0
        /\ servers[c.inst].browser = "none"

====
